---------------------------- MODULE Spec2Model ----------------------------
(***************************************************************************)
(* Image server (src/app.py): a Flask application that stores uploaded     *)
(* images in a PostgreSQL table through a psycopg2 SimpleConnectionPool    *)
(* and serves them back by id.                                             *)
(*                                                                         *)
(* Strings that the code inspects character by character (filenames) are   *)
(* sequences of one-character strings.  A value that may be None is a      *)
(* sequence of length 0 (None) or 1 (the value).                           *)
(***************************************************************************)
EXTENDS Integers, Sequences, FiniteSets, TLC

(***************************************************************************)
(* Bounds of the model.                                                    *)
(***************************************************************************)
\* number of requests a behaviour contains
NumReq == 3
\* database failures (connect, execute, fetchone, commit) a behaviour contains
MaxFaults == 1
\* longest generated filename of the MIME specification
MaxNameLen == 4

(***************************************************************************)
(* Configuration (src/app.py lines 27-29, 41-42).                          *)
(***************************************************************************)
BASE_URL == "http://img.example"
ALLOWED_ORIGIN == <<"https://app.example">>
ACCESS_SECRET == "s3cret"
minconn == 1
\* maxconn=10 in the source; the model runs the same pool code with 2, so
\* that NumReq requests in flight can exceed it
maxconn == 2

None == <<>>
Some(v) == <<v>>

(***************************************************************************)
(* get_mime_type (lines 123-135): os.path.splitext, str.lower, dict.get.   *)
(***************************************************************************)
Max(S) == CHOOSE x \in S : \A y \in S : y <= x

\* str.rfind of a one-character needle, 0-based, -1 when absent
rfind(p, ch) ==
    LET hits == {i \in 1..Len(p) : p[i] = ch}
    IN  IF hits = {} THEN -1 ELSE Max(hits) - 1

\* the while loop of genericpath._splitext: the index of the first character
\* in [filenameIndex, dotIndex) that is not a dot, or -1 when all are dots
RECURSIVE skip_leading_dots(_, _, _)
skip_leading_dots(p, filenameIndex, dotIndex) ==
    IF filenameIndex < dotIndex
    THEN IF p[filenameIndex + 1] # "."
         THEN filenameIndex
         ELSE skip_leading_dots(p, filenameIndex + 1, dotIndex)
    ELSE -1

\* variant of splitext_ext that does not look for the path separator
splitext_ext_nosep(p) ==
    LET dotIndex == rfind(p, ".")
    IN  IF dotIndex > -1 /\ skip_leading_dots(p, 0, dotIndex) # -1
        THEN SubSeq(p, dotIndex + 1, Len(p))
        ELSE <<>>

\* os.path.splitext(p)[1] on POSIX (sep '/', no altsep, extsep '.')
splitext_ext(p) ==
    LET sepIndex == rfind(p, "/")
        dotIndex == rfind(p, ".")
    IN  IF dotIndex > sepIndex /\ skip_leading_dots(p, sepIndex + 1, dotIndex) # -1
        THEN SubSeq(p, dotIndex + 1, Len(p))
        ELSE <<>>

UpperToLower ==
    [c \in {"A","B","C","D","E","F","G","H","I","J","K","L","M","N","O","P","Q",
            "R","S","T","U","V","W","X","Y","Z"} |->
       CASE c = "A" -> "a" [] c = "B" -> "b" [] c = "C" -> "c" [] c = "D" -> "d"
         [] c = "E" -> "e" [] c = "F" -> "f" [] c = "G" -> "g" [] c = "H" -> "h"
         [] c = "I" -> "i" [] c = "J" -> "j" [] c = "K" -> "k" [] c = "L" -> "l"
         [] c = "M" -> "m" [] c = "N" -> "n" [] c = "O" -> "o" [] c = "P" -> "p"
         [] c = "Q" -> "q" [] c = "R" -> "r" [] c = "S" -> "s" [] c = "T" -> "t"
         [] c = "U" -> "u" [] c = "V" -> "v" [] c = "W" -> "w" [] c = "X" -> "x"
         [] c = "Y" -> "y" [] c = "Z" -> "z"]

\* str.lower()
lower(s) ==
    [i \in 1..Len(s) |-> IF s[i] \in DOMAIN UpperToLower THEN UpperToLower[s[i]] ELSE s[i]]

\* the dict of lines 125-134, as a set of <<extension, MIME type>>
mime_types ==
    { << <<".","p","n","g">>,     "image/png"  >>,
      << <<".","j","p","g">>,     "image/jpeg" >>,
      << <<".","j","p","e","g">>, "image/jpeg" >>,
      << <<".","g","i","f">>,     "image/gif"  >>,
      << <<".","w","e","b","p">>, "image/webp" >>,
      << <<".","b","m","p">>,     "image/bmp"  >>,
      << <<".","t","i","f","f">>, "image/tiff" >>,
      << <<".","a","v","i","f">>, "image/avif" >> }

\* mime_types.get(extension): None when the key is absent
dict_get(d, k) ==
    IF \E e \in d : e[1] = k
    THEN Some((CHOOSE e \in d : e[1] = k)[2])
    ELSE None

get_mime_type(filename) == dict_get(mime_types, lower(splitext_ext(filename)))


(***************************************************************************)
(* State.                                                                  *)
(***************************************************************************)
VARIABLES
    phase,      \* "boot" before the startup hook has run, then "serving"
    db_pool,    \* the global db_pool: None, or Some("pool")
    idle,       \* the pool's _pool list: idle connections
    used,       \* the pool's _used dict: request -> connection (0: no entry)
    nconn,      \* connections opened so far; connections are numbered 1..nconn
    images,     \* committed rows of table images
    seq,        \* last value of the id sequence of table images
    txn,        \* connection -> rows inserted in its open transaction
    req,        \* request -> the request, its handler's locals and its response
    log,        \* messages written to app.logger
    filename,   \* MIME specification: the argument of get_mime_type
    mime_type   \* MIME specification: <<>> before the call, <<result>> after

vars == <<phase, db_pool, idle, used, nconn, images, seq, txn, req, log,
          filename, mime_type>>

Reqs == 1..NumReq
Conns == 1..(NumReq + minconn)

(***************************************************************************)
(* Responses.                                                              *)
(***************************************************************************)
NoResponse ==
    [status |-> 0, ctype |-> "", error |-> "", message |-> "", id |-> 0,
     url |-> "", body |-> <<>>]

\* jsonify({"error": msg}), status
jsonify_error(status, msg) ==
    [NoResponse EXCEPT !.status = status, !.ctype = "application/json",
                       !.error = msg]

\* lines 175-185: the 201 body
jsonify_uploaded(image_id) ==
    [NoResponse EXCEPT !.status = 201, !.ctype = "application/json",
                       !.message = "Image uploaded successfully",
                       !.id = image_id,
                       !.url = BASE_URL \o "/" \o ToString(image_id)]

\* line 214: send_file(io.BytesIO(image_data), mimetype=mime_type)
send_file(row) ==
    [NoResponse EXCEPT !.status = 200, !.ctype = row.mime_type,
                       !.body = row.image_data]

\* lines 186-188 and 215-217: except Exception as e
except_response(e) == jsonify_error(500, e)

(***************************************************************************)
(* pre_request_processing (lines 81-102): None lets the request through.   *)
(***************************************************************************)
\* variant that checks every method
pre_request_all_methods(method, origin, auth) ==
    IF origin # ALLOWED_ORIGIN
    THEN Some(jsonify_error(403, "Unauthorized: Invalid origin"))
    ELSE IF auth # Some("Bearer " \o ACCESS_SECRET)
         THEN Some(jsonify_error(401, "Unauthorized: Invalid access token"))
         ELSE None

\* variant that checks the token before the origin
pre_request_token_first(method, origin, auth) ==
    IF method = "POST"
    THEN IF auth # Some("Bearer " \o ACCESS_SECRET)
         THEN Some(jsonify_error(401, "Unauthorized: Invalid access token"))
         ELSE IF origin # ALLOWED_ORIGIN
              THEN Some(jsonify_error(403, "Unauthorized: Invalid origin"))
              ELSE None
    ELSE None

\* lines 92-102
pre_request_processing(method, origin, auth) ==
    IF method = "POST"
    THEN IF origin # ALLOWED_ORIGIN
         THEN Some(jsonify_error(403, "Unauthorized: Invalid origin"))
         ELSE IF auth # Some("Bearer " \o ACCESS_SECRET)
              THEN Some(jsonify_error(401, "Unauthorized: Invalid access token"))
              ELSE None
    ELSE None

\* the logger calls of lines 97 and 101
pre_request_log(method, origin, auth) ==
    IF method = "POST" /\ origin # ALLOWED_ORIGIN THEN {"Unauthorized origin"}
    ELSE IF method = "POST" /\ auth # Some("Bearer " \o ACCESS_SECRET)
         THEN {"Unauthorized access token"}
         ELSE {}

(***************************************************************************)
(* upload_image, lines 142-153: the validation of request.files.  file is  *)
(* None when the form has no 'file' part.                                  *)
(***************************************************************************)
\* variant that checks the file type before the empty filename
upload_validate_type_first(file) ==
    IF file = None
    THEN Some(jsonify_error(400, "No file part in the request"))
    ELSE IF get_mime_type(file[1].filename) = None
         THEN Some(jsonify_error(400, "Unsupported file type"))
         ELSE IF file[1].filename = <<>>
              THEN Some(jsonify_error(400, "No file selected"))
              ELSE None

\* lines 142-153
upload_validate(file) ==
    IF file = None
    THEN Some(jsonify_error(400, "No file part in the request"))
    ELSE IF file[1].filename = <<>>
         THEN Some(jsonify_error(400, "No file selected"))
         ELSE IF get_mime_type(file[1].filename) = None
              THEN Some(jsonify_error(400, "Unsupported file type"))
              ELSE None


(***************************************************************************)
(* The database: table images (id from a sequence, image_name, image_data, *)
(* mime_type).  A connection's INSERT is part of its open transaction and  *)
(* reaches the table at commit; a SELECT reads committed rows.             *)
(***************************************************************************)
new_row(id, name, data, mime) ==
    [id |-> id, image_name |-> name, image_data |-> data, mime_type |-> mime]

\* variant in which the INSERT is committed as it executes
execute_insert_autocommit(table, pending, row) == <<table \cup {row}, pending>>

\* the effect of cur.execute(INSERT ...) (lines 162-168) on <<table, transaction>>
execute_insert(table, pending, row) == <<table, Append(pending, row)>>

\* conn.commit() (line 171) on <<table, transaction>>
commit(table, pending) == <<table \cup {pending[i] : i \in 1..Len(pending)}, <<>> >>

\* the text of the path parameter as the integer it is compared with:
\* the decimal text of an integer, or -1 when the text is no integer
id_of_text(text) ==
    IF \E i \in 0..(NumReq + 1) : ToString(i) = text
    THEN CHOOSE i \in 0..(NumReq + 1) : ToString(i) = text
    ELSE -1

\* variant whose SELECT has no WHERE clause
select_any_row(table, id) ==
    IF table = {} THEN None ELSE Some(CHOOSE row \in table : TRUE)

\* cur.execute(SELECT ... WHERE id = %s); cur.fetchone() (lines 204-207):
\* None, or the row
select_by_id(table, id) ==
    IF \E row \in table : row.id = id
    THEN Some(CHOOSE row \in table : row.id = id)
    ELSE None

(***************************************************************************)
(* The pool (psycopg2.pool.SimpleConnectionPool, created at lines 40-48).  *)
(***************************************************************************)
checked_out == {r \in Reqs : used[r] # 0}

\* getconn: the test that raises PoolError("connection pool exhausted")
pool_exhausted(n) == n = maxconn

\* putconn keeps at most minconn idle connections and closes the others
putconn_idle(pool, conn) ==
    IF Len(pool) < minconn THEN Append(pool, conn) ELSE pool

\* variant of a handler without the finally clause
release_never(conn) == FALSE

\* line 190, "if conn:"
release_needed(conn) == conn # 0

(***************************************************************************)
(* Requests.                                                               *)
(***************************************************************************)
IdleRequest ==
    [pc |-> "idle", method |-> "", path |-> <<>>, origin |-> None,
     auth |-> None, file |-> None, handler |-> "", conn |-> 0,
     image_id |-> 0, resp |-> NoResponse, exc |-> "", fault |-> "none",
     acquired |-> 0, released |-> 0, known |-> FALSE]

GoodToken == Some("Bearer " \o ACCESS_SECRET)
Evil == Some("https://evil.example")
WrongToken == Some("Bearer wrong")

File(name, data) == Some([filename |-> name, data |-> data])
PngFile == File(<<"a", ".", "p", "n", "g">>, <<137, 80>>)
JpgFile == File(<<"b", ".", "J", "P", "G">>, <<>>)
Files ==
    { None,
      File(<<>>, <<137, 80>>),
      PngFile,
      JpgFile,
      File(<<"c", ".", "z", "i", "p">>, <<137, 80>>) }

\* the requests a client sends: <<method, path, origin, auth, file>>
Uploads ==
    {<<"POST", <<"upload">>, ALLOWED_ORIGIN, GoodToken, f>> : f \in Files}
    \cup {<<"POST", <<"upload">>, h[1], h[2], PngFile>> :
            h \in {<<Evil, GoodToken>>, <<None, None>>,
                   <<ALLOWED_ORIGIN, WrongToken>>, <<ALLOWED_ORIGIN, None>>}}
Retrievals ==
    { <<"GET", <<"1">>, None, None, None>>,
      <<"GET", <<"1">>, Evil, WrongToken, None>>,
      <<"GET", <<"2">>, ALLOWED_ORIGIN, GoodToken, None>>,
      <<"GET", <<"abc">>, None, None, None>> }
Others ==
    { <<"GET", <<>>, None, None, None>>,
      <<"POST", <<"1">>, Evil, GoodToken, None>> }
Inputs == Uploads \cup Retrievals \cup Others

(***************************************************************************)
(* Init: the module has been imported; the startup hook has not run.       *)
(***************************************************************************)
Init ==
    /\ phase = "boot"
    /\ db_pool = None
    /\ idle = <<>>
    /\ used = [r \in Reqs |-> 0]
    /\ nconn = 0
    /\ images = {}
    /\ seq = 0
    /\ txn = [c \in Conns |-> <<>>]
    /\ req = [r \in Reqs |-> IdleRequest]
    /\ log = {}
    /\ filename = <<>>
    /\ mime_type = <<>>

(***************************************************************************)
(* setup_db_connection_pool (lines 35-52), run once before the first       *)
(* request as its decorator and docstring say.  ok: the database accepts   *)
(* the minconn connections the pool opens.  On an exception the hook logs  *)
(* and returns, and the server goes on to serve.                           *)
(***************************************************************************)
setup_db_connection_pool(ok) ==
    /\ phase = "boot"
    /\ phase' = "serving"
    /\ IF ok
       THEN /\ db_pool' = Some("pool")
            /\ idle' = [i \in 1..minconn |-> i]
            /\ nconn' = minconn
            /\ log' = log \cup {"Database connection pool created successfully."}
       ELSE /\ db_pool' = None
            /\ log' = log \cup {"Error creating database connection pool"}
            /\ UNCHANGED <<idle, nconn>>
    /\ UNCHANGED <<used, images, seq, txn, req, filename, mime_type>>

(***************************************************************************)
(* A request arrives: pre_request_processing, routing, and the handler up  *)
(* to its first use of the pool (upload_image lines 142-156, get_image     *)
(* line 198).                                                              *)
(***************************************************************************)
Arrive(r, in) ==
    /\ phase = "serving"
    /\ req[r].pc = "idle"
    /\ \A q \in Reqs : q < r => req[q].pc # "idle"
    /\ LET method == in[1]
           path == in[2]
           pre == pre_request_processing(method, in[3], in[4])
           base == [IdleRequest EXCEPT !.method = method, !.path = path,
                                       !.origin = in[3], !.auth = in[4]]
           answered(rec, resp) == [rec EXCEPT !.pc = "done", !.resp = resp]
       IN  /\ log' = log \cup pre_request_log(method, in[3], in[4])
           /\ req' = [req EXCEPT ![r] =
                IF pre # None
                THEN answered(base, pre[1])
                ELSE IF method = "POST" /\ path = <<"upload">>
                THEN LET bad == upload_validate(in[5])
                         rec == [base EXCEPT !.handler = "upload_image", !.file = in[5]]
                     IN  IF bad # None
                         THEN answered(rec, bad[1])
                         ELSE [rec EXCEPT !.pc = "getconn"]
                ELSE IF method = "GET" /\ Len(path) = 1
                THEN [base EXCEPT
                        !.handler = "get_image",
                        !.pc = "getconn",
                        !.known = \E u \in Reqs :
                                     /\ req[u].pc = "done"
                                     /\ req[u].resp.status = 201
                                     /\ ToString(req[u].resp.id) = path[1]]
                ELSE IF method = "GET" /\ path = <<>>
                THEN answered([base EXCEPT !.handler = "home"],
                              [NoResponse EXCEPT !.status = 200,
                                                 !.ctype = "text/html",
                                                 !.message = "Hello, World!"])
                ELSE answered(base, [NoResponse EXCEPT !.status = 405,
                                                       !.ctype = "text/html"])]
    /\ UNCHANGED <<phase, db_pool, idle, used, nconn, images, seq, txn,
                   filename, mime_type>>

\* an exception inside the handler's try block: the except clause logs it and
\* builds the 500 response; the finally clause is still to run when a
\* connection is held, and has nothing to do when conn is None
raised(rec, e, fault) ==
    [rec EXCEPT !.pc = IF rec.conn = 0 THEN "done" ELSE "finally",
                !.exc = e, !.fault = fault, !.resp = except_response(e)]

after_getconn(rec) == IF rec.handler = "upload_image" THEN "insert" ELSE "select"

(***************************************************************************)
(* get_db_connection (lines 105-111): db_pool.getconn() up to the point    *)
(* where the pool either hands out an idle connection, raises, or starts   *)
(* to open a new connection.                                               *)
(***************************************************************************)
get_db_connection(r) ==
    /\ req[r].pc = "getconn"
    /\ IF db_pool = None
       THEN /\ req' = [req EXCEPT ![r] =
                 raised(@, "'NoneType' object has no attribute 'getconn'", "none")]
            /\ log' = log \cup {"Error getting connection from pool", "Database error"}
            /\ UNCHANGED <<idle, used>>
       ELSE IF idle # <<>>
       THEN /\ used' = [used EXCEPT ![r] = idle[Len(idle)]]
            /\ idle' = SubSeq(idle, 1, Len(idle) - 1)
            /\ req' = [req EXCEPT ![r] =
                 [@ EXCEPT !.conn = idle[Len(idle)], !.acquired = @ + 1,
                           !.pc = after_getconn(req[r])]]
            /\ UNCHANGED log
       ELSE IF pool_exhausted(Cardinality(checked_out))
       THEN /\ req' = [req EXCEPT ![r] =
                 raised(@, "connection pool exhausted", "none")]
            /\ log' = log \cup {"Error getting connection from pool", "Database error"}
            /\ UNCHANGED <<idle, used>>
       ELSE /\ req' = [req EXCEPT ![r].pc = "connect"]
            /\ UNCHANGED <<idle, used, log>>
    /\ UNCHANGED <<phase, db_pool, nconn, images, seq, txn, filename, mime_type>>

(***************************************************************************)
(* getconn, continued: psycopg2.connect returns (ok) or raises, and the    *)
(* new connection is entered in _used.  SimpleConnectionPool takes no      *)
(* lock, so other requests run between the test of maxconn and this step.  *)
(***************************************************************************)
connect(r, ok) ==
    /\ req[r].pc = "connect"
    /\ IF ok
       THEN /\ nconn' = nconn + 1
            /\ used' = [used EXCEPT ![r] = nconn + 1]
            /\ req' = [req EXCEPT ![r] =
                 [@ EXCEPT !.conn = nconn + 1, !.acquired = @ + 1,
                           !.pc = after_getconn(req[r])]]
            /\ UNCHANGED log
       ELSE /\ req' = [req EXCEPT ![r] =
                 raised(@, "could not connect to server", "connect")]
            /\ log' = log \cup {"Error getting connection from pool", "Database error"}
            /\ UNCHANGED <<nconn, used>>
    /\ UNCHANGED <<phase, db_pool, idle, images, seq, txn, filename, mime_type>>


(***************************************************************************)
(* upload_image, lines 159-170: cur.execute(INSERT ... RETURNING id) and   *)
(* cur.fetchone()[0].  outcome: "ok", "execute" (the statement raises) or  *)
(* "fetchone" (the row is inserted and reading the id raises).             *)
(***************************************************************************)
upload_insert(r, outcome) ==
    /\ req[r].pc = "insert"
    /\ LET c == req[r].conn
           row == new_row(seq + 1, req[r].file[1].filename, req[r].file[1].data,
                          get_mime_type(req[r].file[1].filename)[1])
           db == execute_insert(images, txn[c], row)
       IN  IF outcome = "execute"
           THEN /\ req' = [req EXCEPT ![r] = raised(@, "INSERT failed", "execute")]
                /\ log' = log \cup {"Database error"}
                /\ UNCHANGED <<images, seq, txn>>
           ELSE /\ seq' = seq + 1
                /\ images' = db[1]
                /\ txn' = [txn EXCEPT ![c] = db[2]]
                /\ IF outcome = "fetchone"
                   THEN /\ req' = [req EXCEPT ![r] =
                             raised(@, "fetchone failed", "fetchone")]
                        /\ log' = log \cup {"Database error"}
                   ELSE /\ req' = [req EXCEPT ![r] =
                             [@ EXCEPT !.image_id = seq + 1, !.pc = "commit"]]
                        /\ UNCHANGED log
    /\ UNCHANGED <<phase, db_pool, idle, used, nconn, filename, mime_type>>

(***************************************************************************)
(* upload_image, lines 171-185: conn.commit(), cur.close() and the 201     *)
(* response.  ok: the commit succeeds; otherwise it raises and nothing of  *)
(* the transaction is committed.                                           *)
(***************************************************************************)
upload_commit(r, ok) ==
    /\ req[r].pc = "commit"
    /\ LET c == req[r].conn
           db == commit(images, txn[c])
       IN  IF ok
           THEN /\ images' = db[1]
                /\ txn' = [txn EXCEPT ![c] = db[2]]
                /\ req' = [req EXCEPT ![r] =
                     [@ EXCEPT !.pc = "finally",
                               !.resp = jsonify_uploaded(req[r].image_id)]]
                /\ UNCHANGED log
           ELSE /\ req' = [req EXCEPT ![r] = raised(@, "commit failed", "commit")]
                /\ log' = log \cup {"Database error"}
                /\ UNCHANGED <<images, txn>>
    /\ UNCHANGED <<phase, db_pool, idle, used, nconn, seq, filename, mime_type>>

(***************************************************************************)
(* get_image, lines 201-214: the SELECT and the response.  ok: the         *)
(* database executes the statement; it raises on its own when the text is  *)
(* not an integer.                                                         *)
(***************************************************************************)
get_image_select(r, ok) ==
    /\ req[r].pc = "select"
    /\ LET id == id_of_text(req[r].path[1])
           result == select_by_id(images, id)
       IN  IF ~ok
           THEN /\ req' = [req EXCEPT ![r] = raised(@, "SELECT failed", "execute")]
                /\ log' = log \cup {"Database error"}
           ELSE IF id = -1
           THEN /\ req' = [req EXCEPT ![r] =
                     raised(@, "invalid input syntax for type integer", "none")]
                /\ log' = log \cup {"Database error"}
           ELSE /\ req' = [req EXCEPT ![r] =
                     [@ EXCEPT !.pc = "finally",
                               !.resp = IF result = None
                                        THEN jsonify_error(404, "Image not found")
                                        ELSE send_file(result[1])]]
                /\ UNCHANGED log
    /\ UNCHANGED <<phase, db_pool, idle, used, nconn, images, seq, txn,
                   filename, mime_type>>

(***************************************************************************)
(* The finally clause (lines 189-191, 218-220) and release_db_connection   *)
(* (lines 114-119): putconn rolls the connection's open transaction back,  *)
(* keeps or closes the connection, and removes it from _used.  The         *)
(* response is returned after it.                                          *)
(***************************************************************************)
finally_release(r) ==
    /\ req[r].pc = "finally"
    /\ LET c == req[r].conn
       IN  IF release_needed(c)
           THEN /\ txn' = [txn EXCEPT ![c] = <<>>]
                /\ idle' = putconn_idle(idle, c)
                /\ used' = [used EXCEPT ![r] = 0]
                /\ req' = [req EXCEPT ![r] =
                     [@ EXCEPT !.pc = "done", !.released = @ + 1]]
           ELSE /\ req' = [req EXCEPT ![r].pc = "done"]
                /\ UNCHANGED <<txn, idle, used>>
    /\ UNCHANGED <<phase, db_pool, nconn, images, seq, log, filename, mime_type>>

\* the database may fail a statement while the failure budget lasts
may_fail == Cardinality({r \in Reqs : req[r].fault # "none"}) < MaxFaults

Next ==
    \/ \E ok \in BOOLEAN : setup_db_connection_pool(ok)
    \/ \E r \in Reqs, in \in Inputs : Arrive(r, in)
    \/ \E r \in Reqs : get_db_connection(r)
    \/ \E r \in Reqs, ok \in BOOLEAN : (ok \/ may_fail) /\ connect(r, ok)
    \/ \E r \in Reqs, outcome \in {"ok", "execute", "fetchone"} : (outcome = "ok" \/ may_fail) /\ upload_insert(r, outcome)
    \/ \E r \in Reqs, ok \in BOOLEAN : (ok \/ may_fail) /\ upload_commit(r, ok)
    \/ \E r \in Reqs, ok \in BOOLEAN : (ok \/ may_fail) /\ get_image_select(r, ok)
    \/ \E r \in Reqs : finally_release(r)

Spec == Init /\ [][Next]_vars


(***************************************************************************)
(* MIME specification: get_mime_type applied to every filename over a      *)
(* small alphabet up to MaxNameLen characters, and to sample names.        *)
(***************************************************************************)
Alphabet == {".", "/", "p", "n", "g", "P", "a"}

SampleNames ==
    { <<"a", ".", "p", "n", "g">>, <<"a", ".", "P", "n", "G">>,
      <<"b", ".", "j", "p", "g">>, <<"b", ".", "J", "P", "G">>,
      <<"b", ".", "j", "p", "e", "g">>, <<"c", ".", "g", "i", "f">>,
      <<"d", ".", "w", "e", "b", "p">>, <<"e", ".", "b", "m", "p">>,
      <<"f", ".", "t", "i", "f", "f">>, <<"g", ".", "a", "v", "i", "f">>,
      <<"c", ".", "z", "i", "p">>, <<"x", ".", "t", "i", "f">>,
      <<"a", ".", "p", "n", "g", ".", "g", "z">>,
      <<"a", ".", "g", "z", ".", "p", "n", "g">>,
      <<"a", "/", ".", "p", "n", "g">>, <<".", ".", "p", "n", "g">>,
      <<"a", ".", "b", "/", "p", "n", "g">>, <<"a", "/", "b", ".", "p", "n", "g">>,
      <<"p", "n", "g">>, <<"a", ".">> }

Names ==
    SampleNames \cup UNION {[1..n -> Alphabet] : n \in 0..MaxNameLen}

InitMime ==
    /\ phase = "mime"
    /\ db_pool = None
    /\ idle = <<>>
    /\ used = [r \in Reqs |-> 0]
    /\ nconn = 0
    /\ images = {}
    /\ seq = 0
    /\ txn = [c \in Conns |-> <<>>]
    /\ req = [r \in Reqs |-> IdleRequest]
    /\ log = {}
    /\ filename \in Names
    /\ mime_type = <<>>

resolve_mime_type ==
    /\ phase = "mime"
    /\ mime_type = <<>>
    /\ mime_type' = <<get_mime_type(filename)>>
    /\ UNCHANGED <<phase, db_pool, idle, used, nconn, images, seq, txn, req, log,
                   filename>>

NextMime == resolve_mime_type

SpecMime == InitMime /\ [][NextMime]_vars

(***************************************************************************)
(* Vocabulary of the properties.                                           *)
(***************************************************************************)
Arrived(r) == req[r].pc # "idle"
Done(r) == req[r].pc = "done"
IsPost(r) == Arrived(r) /\ req[r].method = "POST"
IsUpload(r) == IsPost(r) /\ req[r].path = <<"upload">>
IsRetrieve(r) == Arrived(r) /\ req[r].method = "GET" /\ Len(req[r].path) = 1
Authorized(r) == req[r].origin = ALLOWED_ORIGIN /\ req[r].auth = GoodToken
Uploaded(r) == IsUpload(r) /\ Done(r) /\ req[r].resp.status = 201
InFlight(r) == Arrived(r) /\ ~Done(r)
NeverAcquired(r) ==
    req[r].acquired = 0 /\ req[r].conn = 0 /\ used[r] = 0 /\ req[r].image_id = 0

\* the MIME type of the two valid files a client uploads
MimeOfUpload(file) == IF file = PngFile THEN "image/png" ELSE "image/jpeg"

\* the message of each failure the database is made to produce
MessageOf(fault) ==
    CASE fault = "connect" -> "could not connect to server"
      [] fault = "execute" -> "INSERT failed"
      [] fault = "fetchone" -> "fetchone failed"
      [] fault = "commit" -> "commit failed"


(***************************************************************************)
(* C10: MIME resolution.                                                   *)
(***************************************************************************)
\* two characters that are equal up to the case of a letter
SameLetter(a, b) ==
    \/ a = b
    \/ a \in DOMAIN UpperToLower /\ UpperToLower[a] = b
    \/ b \in DOMAIN UpperToLower /\ UpperToLower[b] = a

EqualIgnoringCase(s, t) ==
    Len(s) = Len(t) /\ \A i \in 1..Len(s) : SameLetter(s[i], t[i])

\* the table's MIME type for an extension compared case-insensitively
TableLookup(ext) ==
    IF \E e \in mime_types : EqualIgnoringCase(ext, e[1])
    THEN Some((CHOOSE e \in mime_types : EqualIgnoringCase(ext, e[1]))[2])
    ELSE None

HasDot(name) == \E i \in 1..Len(name) : name[i] = "."
LastDot(name) == Max({i \in 1..Len(name) : name[i] = "."})

\* the claim's extension: the substring from the last '.' to the end
ClaimedMime(name) ==
    IF HasDot(name)
    THEN TableLookup(SubSeq(name, LastDot(name), Len(name)))
    ELSE None

\* the last '.' lies in the last path component and that component has a
\* character other than '.' before it
DotEndsAStem(name) ==
    /\ HasDot(name)
    /\ \A j \in LastDot(name)..Len(name) : name[j] # "/"
    /\ \E k \in 1..(LastDot(name) - 1) :
          /\ name[k] # "."
          /\ \A j \in k..LastDot(name) : name[j] # "/"

AmendedMime(name) ==
    IF DotEndsAStem(name)
    THEN TableLookup(SubSeq(name, LastDot(name), Len(name)))
    ELSE None

\* C10 as claimed: for every filename the result is the table's MIME type of
\* the substring from the last '.' to the end, compared case-insensitively,
\* and unrecognized when there is no '.' or the extension is not listed.
C10_AsClaimed ==
    mime_type # <<>> => mime_type[1] = ClaimedMime(filename)

\* C10 amended: the result is the table's MIME type of the substring from
\* the last '.' to the end, compared case-insensitively, provided that '.'
\* lies in the last path component (no '/' after it) and is preceded in that
\* component by a character other than '.'; otherwise, and when the
\* extension is not listed, the filename is unrecognized.
C10_MimeResolution ==
    mime_type # <<>> => mime_type[1] = AmendedMime(filename)

\* an upper-case listed extension has been resolved, and so has a name that
\* begins with its only '.'
C10_Witness ==
    /\ mime_type # <<>>
    /\ \/ filename = <<"b", ".", "J", "P", "G">> /\ mime_type[1] = Some("image/jpeg")
       \/ filename = <<".", "p", "n", "g">> /\ mime_type[1] = None


(***************************************************************************)
(* C1: round trip.                                                         *)
(***************************************************************************)
\* retrieval g arrived after upload u had answered 201 with the id g asks for
Follows(g, u) ==
    /\ Uploaded(u)
    /\ IsRetrieve(g) /\ Done(g) /\ req[g].known
    /\ req[g].path[1] = ToString(req[u].resp.id)

RoundTripResponse(g, u) ==
    /\ req[g].resp.status = 200
    /\ req[g].resp.body = req[u].file[1].data
    /\ req[g].resp.ctype = MimeOfUpload(req[u].file)

UrlOfId(u) ==
    req[u].resp.url = BASE_URL \o "/" \o ToString(req[u].resp.id)

\* C1 as claimed: an upload that returned 201 with id i is followed, after
\* any further requests, by GET /i returning 200 with the uploaded bytes and
\* the MIME type resolved at upload; the url of the 201 body is BASE_URL/i.
C1_AsClaimed ==
    /\ \A u \in Reqs : Uploaded(u) => UrlOfId(u)
    /\ \A u, g \in Reqs : Follows(g, u) => RoundTripResponse(g, u)

\* C1 amended: such a GET /i returns 200 with the uploaded bytes and the MIME
\* type resolved at upload unless the retrieval itself ends in a storage
\* failure (no pool, pool exhausted, connection or query failure), which
\* returns 500; it never returns 404 or another record's bytes.  Ids are not
\* reused, and the url of the 201 body is BASE_URL/i.
C1_RoundTrip ==
    /\ \A u \in Reqs : Uploaded(u) => UrlOfId(u)
    /\ \A u, v \in Reqs :
          Uploaded(u) /\ Uploaded(v) /\ u # v => req[u].resp.id # req[v].resp.id
    /\ \A u, g \in Reqs :
          Follows(g, u) =>
             \/ RoundTripResponse(g, u)
             \/ req[g].resp.status = 500 /\ req[g].exc # "" /\ req[g].resp.error = req[g].exc

\* two uploads have answered 201 and a later GET of one of them answered 200
C1_Witness ==
    \E u, v, g \in Reqs :
        /\ u # v /\ Uploaded(u) /\ Uploaded(v)
        /\ req[u].file # req[v].file
        /\ Follows(g, u) /\ req[g].resp.status = 200

Rejected(r, status, msg) ==
    /\ Done(r)
    /\ req[r].resp.status = status
    /\ req[r].resp.error = msg
    /\ req[r].handler = ""
    /\ NeverAcquired(r)

\* C3: a POST whose Origin is not the allowed origin is answered 403
\* "Unauthorized: Invalid origin" whatever its Authorization; otherwise a
\* POST whose Authorization is not "Bearer <ACCESS_SECRET>" is answered 401
\* "Unauthorized: Invalid access token"; in both cases no handler runs, no
\* connection is acquired and no record is created.
C3_PostCheck ==
    /\ \A r \in Reqs :
          IsPost(r) =>
             /\ req[r].origin # ALLOWED_ORIGIN =>
                   Rejected(r, 403, "Unauthorized: Invalid origin")
             /\ req[r].origin = ALLOWED_ORIGIN /\ req[r].auth # GoodToken =>
                   Rejected(r, 401, "Unauthorized: Invalid access token")
    /\ \A row \in images :
          \E u \in Reqs : IsUpload(u) /\ Authorized(u) /\ req[u].image_id = row.id

\* a POST with a foreign origin and the valid token has been answered 403,
\* and one with the allowed origin and a wrong token 401
C3_Witness ==
    /\ \E r \in Reqs :
          /\ IsPost(r) /\ req[r].origin = Evil /\ req[r].auth = GoodToken
          /\ req[r].resp.status = 403
    /\ \E r \in Reqs :
          /\ IsPost(r) /\ req[r].origin = ALLOWED_ORIGIN /\ req[r].auth = WrongToken
          /\ req[r].resp.status = 401

(***************************************************************************)
(* C4: an upload that fails in the storage layer.                          *)
(***************************************************************************)
RowOfUpload(u) ==
    new_row(req[u].resp.id, req[u].file[1].filename, req[u].file[1].data,
            MimeOfUpload(req[u].file))

\* C4: an upload that ends in a storage failure answers 500 with the
\* failure's message as its error field; the stored records are exactly
\* those of the uploads whose commit succeeded, so an upload that answers
\* 500 leaves them unchanged and no record is visible before its commit.
C4_FailedUpload ==
    /\ \A r \in Reqs :
          IsUpload(r) /\ (req[r].fault # "none" \/ req[r].exc # "") =>
             /\ req[r].resp.status = 500
             /\ req[r].resp.ctype = "application/json"
             /\ req[r].resp.error = req[r].exc
             /\ req[r].fault # "none" => req[r].exc = MessageOf(req[r].fault)
    /\ \A r \in Reqs :
          IsUpload(r) /\ req[r].resp.status = 500 =>
             \A row \in images : row.id # req[r].image_id
    /\ images = {RowOfUpload(u) : u \in {r \in Reqs : IsUpload(r) /\ req[r].resp.status = 201}}

\* an upload whose row was inserted has failed at fetchone or at commit and
\* has answered 500
C4_Witness ==
    \E r \in Reqs :
        /\ IsUpload(r) /\ Done(r) /\ req[r].resp.status = 500
        /\ req[r].fault \in {"fetchone", "commit"}
        /\ seq >= 1

(***************************************************************************)
(* C5: validation of an authorized upload.                                 *)
(***************************************************************************)
Invalid(r, msg) ==
    /\ Done(r)
    /\ req[r].resp.status = 400
    /\ req[r].resp.ctype = "application/json"
    /\ req[r].resp.error = msg
    /\ NeverAcquired(r)

\* C5: an authorized upload with no 'file' field answers 400 "No file part
\* in the request"; with an empty filename 400 "No file selected"; with a
\* filename whose extension has no MIME mapping 400 "Unsupported file type";
\* in that order, acquiring no connection and storing nothing.
C5_Validation ==
    /\ \A r \in Reqs :
          IsUpload(r) /\ Authorized(r) =>
             /\ req[r].file = None => Invalid(r, "No file part in the request")
             /\ req[r].file # None /\ req[r].file[1].filename = <<>> =>
                   Invalid(r, "No file selected")
             /\ /\ req[r].file # None
                /\ req[r].file[1].filename # <<>>
                /\ AmendedMime(req[r].file[1].filename) = None
                => Invalid(r, "Unsupported file type")
    /\ \A row \in images : row.mime_type \in {e[2] : e \in mime_types}

\* an authorized upload of a file with an empty filename has answered 400
C5_Witness ==
    \E r \in Reqs :
        /\ IsUpload(r) /\ Authorized(r) /\ req[r].file # None
        /\ req[r].file[1].filename = <<>>
        /\ req[r].resp.status = 400


(***************************************************************************)
(* C6: retrieval of an identifier that was never assigned.                 *)
(***************************************************************************)
\* no stored record has the identifier retrieval g asks for
NeverStored(g) == \A row \in images : ToString(row.id) # req[g].path[1]

\* C6 as claimed: for every path identifier, numeric or not, that was never
\* assigned to a stored record, GET /<identifier> returns 404 "Image not
\* found" (stated here for the retrievals that got a connection and whose
\* statement the database was not made to fail).
C6_AsClaimed ==
    \A g \in Reqs :
        /\ IsRetrieve(g) /\ Done(g) /\ NeverStored(g)
        /\ req[g].acquired = 1 /\ req[g].fault = "none"
        => /\ req[g].resp.status = 404
           /\ req[g].resp.error = "Image not found"

(***************************************************************************)
(* C7: failure to create the pool at startup.                              *)
(***************************************************************************)
\* C7 as claimed: when the pool cannot be created the process never begins
\* serving: no upload or retrieve request is handled while db_pool is unset.
C7_AsClaimed ==
    \A r \in Reqs :
        Arrived(r) /\ req[r].handler \in {"upload_image", "get_image"}
        => db_pool # None

(***************************************************************************)
(* C8: the pool under concurrent requests.                                 *)
(***************************************************************************)
\* C8 as claimed: no connection is checked out to two requests at the same
\* time, at most maxconn connections are checked out at any moment, and a
\* request that finds the pool exhausted answers 500 without taking a
\* connection.
C8_AsClaimed ==
    /\ \A r, q \in Reqs : r # q /\ used[r] # 0 => used[r] # used[q]
    /\ Cardinality(checked_out) <= maxconn
    /\ \A r \in Reqs :
          req[r].exc = "connection pool exhausted" =>
             req[r].resp.status = 500 /\ NeverAcquired(r)

(***************************************************************************)
(* C9: retrieval does not depend on Origin or Authorization.               *)
(***************************************************************************)
\* a retrieval of a record that was stored when it arrived
KnownRetrieve(g) == IsRetrieve(g) /\ Done(g) /\ req[g].known

NotByPolicy(g) == req[g].resp.status \notin {401, 403}

\* C9 as claimed: every GET of a stored id gets the same 200 response
\* whatever its Origin and Authorization headers, and no GET is answered
\* 401 or 403.
C9_AsClaimed ==
    /\ \A g \in Reqs : IsRetrieve(g) => NotByPolicy(g)
    /\ \A g \in Reqs : KnownRetrieve(g) => req[g].resp.status = 200
    /\ \A g, h \in Reqs :
          KnownRetrieve(g) /\ KnownRetrieve(h) /\ req[g].path = req[h].path
          => req[g].resp = req[h].resp

\* C9 amended: two GETs of the same stored id that differ only in their
\* Origin and Authorization headers get the same response: the 200 response
\* of the record when the retrieval meets no storage failure, and the 500
\* response of that failure otherwise; no GET is answered 401 or 403.
C9_HeaderIndependence ==
    /\ \A g \in Reqs : IsRetrieve(g) => NotByPolicy(g)
    /\ \A g \in Reqs :
          KnownRetrieve(g) =>
             \/ req[g].exc = "" /\ req[g].resp.status = 200
             \/ req[g].exc # "" /\ req[g].resp = jsonify_error(500, req[g].exc)
    /\ \A g, h \in Reqs :
          /\ KnownRetrieve(g) /\ KnownRetrieve(h)
          /\ req[g].path = req[h].path /\ req[g].exc = req[h].exc
          => req[g].resp = req[h].resp

\* two GETs of the same stored id, one without headers and one with a
\* foreign origin and a wrong token, have both answered 200
C9_Witness ==
    \E g, h \in Reqs :
        /\ KnownRetrieve(g) /\ KnownRetrieve(h)
        /\ req[g].path = req[h].path
        /\ req[g].origin = None /\ req[g].auth = None
        /\ req[h].origin = Evil /\ req[h].auth = WrongToken
        /\ req[g].resp.status = 200 /\ req[h].resp.status = 200

====
